---------------------------- MODULE Spec2Model ----------------------------
(***************************************************************************)
(* Model of the Regina parking tickets downloader                          *)
(* (src/download_parking_data.py): the field derivation rules of           *)
(* process_dataframe and the download_and_combine pipeline.                *)
(*                                                                         *)
(* Text is a sequence of one-character strings.  A nullable value is a     *)
(* sequence of length 0 (None / NaN / NaT) or 1 (the value).               *)
(***************************************************************************)
EXTENDS Integers, Sequences, FiniteSets, TLC

None == <<>>
Some(x) == <<x>>
IsNull(o) == o = <<>>
Val(o) == o[1]

---------------------------------------------------------------------------
(* Characters and the str methods parse_location uses.                     *)

UpperChars ==
    << "A","B","C","D","E","F","G","H","I","J","K","L","M",
       "N","O","P","Q","R","S","T","U","V","W","X","Y","Z" >>

LowerChars ==
    << "a","b","c","d","e","f","g","h","i","j","k","l","m",
       "n","o","p","q","r","s","t","u","v","w","x","y","z" >>

Range(f) == { f[k] : k \in DOMAIN f }

IsUpper(c) == c \in Range(UpperChars)
IsLower(c) == c \in Range(LowerChars)
IsCased(c) == IsUpper(c) \/ IsLower(c)
IsDigit(c) == c \in {"0","1","2","3","4","5","6","7","8","9"}
IsSpace(c) == c \in {" ", "\t"}

ToUpper(c) ==
    IF IsLower(c)
    THEN UpperChars[CHOOSE k \in DOMAIN LowerChars : LowerChars[k] = c]
    ELSE c

ToLower(c) ==
    IF IsUpper(c)
    THEN LowerChars[CHOOSE k \in DOMAIN UpperChars : UpperChars[k] = c]
    ELSE c

\* str.upper(), as re.IGNORECASE compares the fixed prefixes
Upper(s) == [k \in DOMAIN s |-> ToUpper(s[k])]

\* str.title(): a cased character is upper-cased when the character before
\* it is not cased (or there is none), lower-cased otherwise
Title(s) ==
    [k \in DOMAIN s |->
        IF k > 1 /\ IsCased(s[k-1]) THEN ToLower(s[k]) ELSE ToUpper(s[k])]

RECURSIVE LStrip(_)
LStrip(s) ==
    IF s # <<>> /\ IsSpace(Head(s)) THEN LStrip(Tail(s)) ELSE s

RECURSIVE RStrip(_)
RStrip(s) ==
    IF s # <<>> /\ IsSpace(s[Len(s)])
    THEN RStrip(SubSeq(s, 1, Len(s) - 1))
    ELSE s

\* str.strip()
Strip(s) == RStrip(LStrip(s))

\* index after the longest run of whitespace / digits starting at p
RECURSIVE SkipSpaces(_, _)
SkipSpaces(s, p) ==
    IF p <= Len(s) /\ IsSpace(s[p]) THEN SkipSpaces(s, p + 1) ELSE p

RECURSIVE SkipDigits(_, _)
SkipDigits(s, p) ==
    IF p <= Len(s) /\ IsDigit(s[p]) THEN SkipDigits(s, p + 1) ELSE p

From(s, p) == SubSeq(s, p, Len(s))

---------------------------------------------------------------------------
(* split_location.parse_location                                           *)

RegionSuffix ==
    << ",", " ", "R","e","g","i","n","a", ",", " ",
       "S","a","s","k","a","t","c","h","e","w","a","n" >>

\* the group `(\d+\s+.+)$` matched at position p: digits, whitespace, and at
\* least one more character up to the end of the string
MatchNumberAt(s, p) ==
    LET d == SkipDigits(s, p)
        w == SkipSpaces(s, d)
    IN  d > p /\ w > d /\ w <= Len(s)

\* `^(.+?)\s+(\d+\s+.+)$`: the lazy group 1 is tried at length 1, 2, ...;
\* the result is None or Some(<<group 1, group 2>>)
RECURSIVE MatchStreetNumber(_, _)
MatchStreetNumber(s, i) ==
    IF i >= Len(s) THEN None
    ELSE LET w == SkipSpaces(s, i + 1)
         IN  IF w > i + 1 /\ MatchNumberAt(s, w)
             THEN Some(<< SubSeq(s, 1, i), From(s, w) >>)
             ELSE MatchStreetNumber(s, i + 1)

\* the alternation of prefix_pattern, in its order
LocationPrefixes ==
    << << "W","E","S","T"," ","S","I","D","E" >>,
       << "E","A","S","T"," ","S","I","D","E" >>,
       << "N","O","R","T","H"," ","S","I","D","E" >>,
       << "S","O","U","T","H"," ","S","I","D","E" >>,
       << "I","N"," ","F","R","O","N","T"," ","O","F" >>,
       << "O","P","P","O","S","I","T","E" >>,
       << "B","E","S","I","D","E" >>,
       << "B","E","H","I","N","D" >>,
       << "N","E","A","R" >>,
       << "A","D","J","A","C","E","N","T"," ","T","O" >> >>

\* one alternative of `^(...)\s+(.+)$` under re.IGNORECASE
MatchPrefixAt(s, k) ==
    LET n == Len(LocationPrefixes[k])
        w == SkipSpaces(s, n + 1)
    IN  /\ Len(s) > n
        /\ Upper(SubSeq(s, 1, n)) = LocationPrefixes[k]
        /\ w > n + 1
        /\ w <= Len(s)

RECURSIVE MatchPrefix(_, _)
MatchPrefix(s, k) ==
    IF k > Len(LocationPrefixes) THEN None
    ELSE IF MatchPrefixAt(s, k)
         THEN LET n == Len(LocationPrefixes[k])
              IN  Some(<< SubSeq(s, 1, n), From(s, SkipSpaces(s, n + 1)) >>)
         ELSE MatchPrefix(s, k + 1)

\* lines 255-264: title-case what is truthy, append the region to the address
FormatLocation(location) ==
    IF ~IsNull(location) /\ Val(location) # <<>>
    THEN Some(Title(Val(location)))
    ELSE location

FormatAddress(address) ==
    IF ~IsNull(address) /\ Val(address) # <<>>
    THEN Some(Title(Val(address)) \o RegionSuffix)
    ELSE address

\* parse_location without the street-number pattern of lines 228-241
ParseLocationPrefixOnly(viol_loc) ==
    IF IsNull(viol_loc) THEN << None, None >>
    ELSE
      LET viol_loc_str == Strip(Val(viol_loc))
          prefix_match == MatchPrefix(viol_loc_str, 1)
          split ==
            IF ~IsNull(prefix_match)
            THEN << Some(Strip(Val(prefix_match)[1])),
                    Some(Strip(Val(prefix_match)[2])) >>
            ELSE << None, Some(viol_loc_str) >>
      IN  << FormatLocation(split[1]), FormatAddress(split[2]) >>

\* viol_loc is None (a missing cell) or Some(text); the result is
\* <<location, address>>, each nullable
ParseLocation(viol_loc) ==
    IF IsNull(viol_loc) THEN << None, None >>
    ELSE
      LET viol_loc_str == Strip(Val(viol_loc))
          match == MatchStreetNumber(viol_loc_str, 1)
          prefix_match == MatchPrefix(viol_loc_str, 1)
          split ==
            IF ~IsNull(match)
            THEN LET potential_location == Strip(Val(match)[1])
                     potential_address == Strip(Val(match)[2])
                 IN  IF ~IsDigit(Head(potential_location))
                     THEN << Some(potential_location), Some(potential_address) >>
                     ELSE << None, Some(viol_loc_str) >>
            ELSE IF ~IsNull(prefix_match)
                 THEN << Some(Strip(Val(prefix_match)[1])),
                         Some(Strip(Val(prefix_match)[2])) >>
                 ELSE << None, Some(viol_loc_str) >>
      IN  << FormatLocation(split[1]), FormatAddress(split[2]) >>


---------------------------------------------------------------------------
(* Timestamps: pd.to_datetime(..., format="%d/%m/%Y %H:%M:%S",             *)
(* errors="coerce") and the fields derived from the parsed value.          *)
(* A raw cell is None (empty) or Some(r), r the text of the cell split at  *)
(* its separators: r.wellformed says the text has the shape                *)
(* n/n/n n:n:n, and r.f[1..6] are the six numbers in textual order.        *)

IsLeap(y) == (y % 4 = 0 /\ y % 100 # 0) \/ y % 400 = 0

DaysInMonth(y, m) ==
    IF m = 2 THEN (IF IsLeap(y) THEN 29 ELSE 28)
    ELSE IF m \in {4, 6, 9, 11} THEN 30 ELSE 31

\* %d/%m/%Y %H:%M:%S: the first number is the day, the second the month;
\* errors="coerce" turns a value that does not parse into NaT
ParseDatetime(cell) ==
    IF IsNull(cell) THEN None
    ELSE LET r == Val(cell)
             day == r.f[1]  month == r.f[2]  year == r.f[3]
             hour == r.f[4]  minute == r.f[5]  second == r.f[6]
         IN  IF /\ r.wellformed
                /\ month \in 1..12
                /\ day \in 1..DaysInMonth(year, month)
                /\ hour \in 0..23 /\ minute \in 0..59 /\ second \in 0..59
             THEN Some([year |-> year, month |-> month, day |-> day,
                        hour |-> hour, minute |-> minute, second |-> second])
             ELSE None

\* .dt.date and .dt.time
DateOf(ts) ==
    IF IsNull(ts) THEN None
    ELSE Some([year |-> Val(ts).year, month |-> Val(ts).month, day |-> Val(ts).day])

TimeOf(ts) ==
    IF IsNull(ts) THEN None
    ELSE Some([hour |-> Val(ts).hour, minute |-> Val(ts).minute,
               second |-> Val(ts).second])

\* .dt.dayofweek: Monday = 0 ... Sunday = 6, NaN for NaT
SakamotoOffsets == << 0, 3, 2, 5, 0, 3, 5, 1, 4, 6, 2, 4 >>

DayOfWeek(ts) ==
    IF IsNull(ts) THEN None
    ELSE LET y == IF Val(ts).month < 3 THEN Val(ts).year - 1 ELSE Val(ts).year
             day == (y + (y \div 4) - (y \div 100) + (y \div 400)
                       + SakamotoOffsets[Val(ts).month] + Val(ts).day) % 7
         IN  Some((day + 6) % 7)

DayNames ==
    << "Monday", "Tuesday", "Wednesday", "Thursday", "Friday",
       "Saturday", "Sunday" >>

\* .dt.day_name()
DayName(ts) ==
    IF IsNull(ts) THEN None ELSE Some(DayNames[Val(DayOfWeek(ts)) + 1])

\* categorize_time with the first boundary test written `8 <= hour <= 12`
CategorizeTimeInclusiveNoon(dt) ==
    IF IsNull(dt) THEN None
    ELSE LET hour == Val(dt).hour
         IN  IF 8 <= hour /\ hour <= 12 THEN Some("8am-12pm")
             ELSE IF 12 <= hour /\ hour < 17 THEN Some("12pm-5pm")
             ELSE IF 17 <= hour /\ hour < 23 THEN Some("5pm-11pm")
             ELSE Some("11pm-8am")

CategorizeTime(dt) ==
    IF IsNull(dt) THEN None
    ELSE LET hour == Val(dt).hour
         IN  IF 8 <= hour /\ hour < 12 THEN Some("8am-12pm")
             ELSE IF 12 <= hour /\ hour < 17 THEN Some("12pm-5pm")
             ELSE IF 17 <= hour /\ hour < 23 THEN Some("5pm-11pm")
             ELSE Some("11pm-8am")

\* the lambda of lines 138-140 applied to .dt.dayofweek: for NaT the
\* operand is NaN, `NaN >= 5` is False, and the else branch is taken
WeekendOrWeekday(ts) ==
    LET x == DayOfWeek(ts)
    IN  IF ~IsNull(x) /\ Val(x) >= 5 THEN Some("Weekend") ELSE Some("Weekday")

Holidays2025 ==
    { << 1, 1 >>, << 2, 17 >>, << 4, 18 >>, << 5, 19 >>, << 7, 1 >>,
      << 8, 4 >>, << 9, 1 >>, << 10, 13 >>, << 11, 11 >>, << 12, 25 >> }

IsPublicHoliday(date_val) ==
    IF IsNull(date_val) THEN None
    ELSE IF /\ Val(date_val).year = 2025
            /\ << Val(date_val).month, Val(date_val).day >> \in Holidays2025
         THEN Some("Yes") ELSE Some("No")

---------------------------------------------------------------------------
(* Tables.  A DataFrame is [columns |-> set of names, rows |-> sequence    *)
(* of rows], a row a function from the columns to nullable cells.          *)

EmptyFrame == [columns |-> {}, rows |-> <<>>]

RECURSIVE ConcatColumns(_)
ConcatColumns(dfs) ==
    IF dfs = <<>> THEN {} ELSE Head(dfs).columns \cup ConcatColumns(Tail(dfs))

RECURSIVE ConcatRows(_, _)
ConcatRows(dfs, columns) ==
    IF dfs = <<>> THEN <<>>
    ELSE [k \in DOMAIN Head(dfs).rows |->
            [c \in columns |->
                IF c \in Head(dfs).columns THEN Head(dfs).rows[k][c] ELSE None]]
         \o ConcatRows(Tail(dfs), columns)

\* pd.concat(dataframes, ignore_index=True): the union of the columns, the
\* rows in list order, a missing marker where a frame lacks a column
Concat(dfs) ==
    [columns |-> ConcatColumns(dfs),
     rows |-> ConcatRows(dfs, ConcatColumns(dfs))]

\* df[name] = values: adds or overwrites a column
WithColumn(df, name, values) ==
    [columns |-> df.columns \cup {name},
     rows |-> [k \in DOMAIN df.rows |->
                 [c \in df.columns \cup {name} |->
                     IF c = name THEN values[k] ELSE df.rows[k][c]]]]

Column(df, name) == [k \in DOMAIN df.rows |-> df.rows[k][name]]

\* str.replace(old, new): every non-overlapping occurrence, left to right
RECURSIVE Replace(_, _, _)
Replace(s, old, new) ==
    IF Len(s) < Len(old) THEN s
    ELSE IF SubSeq(s, 1, Len(old)) = old
         THEN new \o Replace(From(s, Len(old) + 1), old, new)
         ELSE << Head(s) >> \o Replace(Tail(s), old, new)

AugusSt == << "A","u","g","u","s"," ","S","t","," >>
AugustSt == << "A","u","g","u","s","t"," ","S","t","," >>
AngusSt == << "A","n","g","u","s"," ","S","t","," >>

CleanAddress(address) ==
    IF IsNull(address) THEN None
    ELSE Some(Replace(Replace(Val(address), AugusSt, AngusSt), AugustSt, AngusSt))

CleanData(df) ==
    IF "ADDRESS" \in df.columns
    THEN WithColumn(df, "ADDRESS",
            [k \in DOMAIN df.rows |-> CleanAddress(df.rows[k]["ADDRESS"])])
    ELSE df

SplitLocation(df) ==
    LET parsed == [k \in DOMAIN df.rows |-> ParseLocation(df.rows[k]["VIOL_LOC"])]
    IN  WithColumn(
            WithColumn(df, "LOCATION", [k \in DOMAIN df.rows |-> parsed[k][1]]),
            "ADDRESS", [k \in DOMAIN df.rows |-> parsed[k][2]])

\* lines 117-144: the columns derived from VIOLATION_DATETIME
DeriveFromDatetime(df) ==
    LET ts == [k \in DOMAIN df.rows |->
                  ParseDatetime(df.rows[k]["VIOLATION_DATETIME"])]
        d1 == WithColumn(df, "VIOLATION_DATETIME", ts)
        d2 == WithColumn(d1, "VIOLATION_DATE",
                  [k \in DOMAIN df.rows |-> DateOf(ts[k])])
        d3 == WithColumn(d2, "VIOLATION_TIME",
                  [k \in DOMAIN df.rows |-> TimeOf(ts[k])])
        d4 == WithColumn(d3, "TIME_CATEGORY",
                  [k \in DOMAIN df.rows |-> CategorizeTime(ts[k])])
        d5 == WithColumn(d4, "DAY_OF_WEEK",
                  [k \in DOMAIN df.rows |-> DayName(ts[k])])
        d6 == WithColumn(d5, "WEEKEND_OR_WEEKDAY",
                  [k \in DOMAIN df.rows |-> WeekendOrWeekday(ts[k])])
    IN  WithColumn(d6, "IS_PUBLIC_HOLIDAY",
            [k \in DOMAIN df.rows |-> IsPublicHoliday(DateOf(ts[k]))])

ProcessDataframe(df) ==
    LET dated == IF "VIOLATION_DATETIME" \in df.columns
                 THEN DeriveFromDatetime(df) ELSE df
        located == IF "VIOL_LOC" \in dated.columns
                   THEN SplitLocation(dated) ELSE dated
    IN  CleanData(located)

CombineDataframes(dataframes) ==
    IF dataframes = <<>> THEN EmptyFrame
    ELSE ProcessDataframe(Concat(dataframes))

---------------------------------------------------------------------------
(* Inputs of the derivation rules.                                         *)

MaxWords == 3
MaxRows == 2

SeqsUpTo(S, n) == UNION { [1..k -> S] : k \in 1..n }

Words ==
    { << "W","E","S","T"," ","S","I","D","E" >>,
      << "i","n"," ","f","r","o","n","t"," ","o","f" >>,
      << "N","e","a","r" >>,
      << "N","E","A","R","B","Y" >>,
      << "1","8","0","0" >>,
      << "1","1","T","H" >>,
      << "A","U","G","U","S" >>,
      << "o","'","n","e","i","l" >> }

RECURSIVE Join(_, _)
Join(ws, sep) ==
    IF Len(ws) = 1 THEN ws[1]
    ELSE ws[1] \o sep \o Join(Tail(ws), sep)

WestSide1800AngusSt ==
    << "W","E","S","T"," ","S","I","D","E"," ","1","8","0","0"," ",
       "A","N","G","U","S"," ","S","T" >>
InFrontOfDarkeCres ==
    << "I","N"," ","F","R","O","N","T"," ","O","F"," ",
       "D","A","R","K","E"," ","C","R","E","S" >>
AngusSt1800 == << "1","8","0","0"," ","A","N","G","U","S"," ","S","T" >>

\* up to MaxWords words joined by one space, the same joined by a space and
\* a tab inside surrounding whitespace, the literal examples, and the
\* empty and all-whitespace texts
Texts ==
    { Join(ws, << " " >>) : ws \in SeqsUpTo(Words, MaxWords) }
    \cup { << " " >> \o Join(ws, << " ", "\t" >>) \o << "\t" >> :
             ws \in SeqsUpTo(Words, MaxWords) }
    \cup { WestSide1800AngusSt, InFrontOfDarkeCres, AngusSt1800 }
    \cup { <<>>, << " " >>, << " ", "\t" >> }

\* a VIOL_LOC cell: empty, or text
ViolLocs == { None } \cup { Some(s) : s \in Texts }

\* a VIOLATION_DATETIME cell: empty, text of another shape, or six numbers
RawDatetimes ==
    { None, Some([wellformed |-> FALSE, f |-> << 0, 0, 0, 0, 0, 0 >>]) }
    \cup { Some([wellformed |-> TRUE, f |-> << d, m, y, h, mi, s >>]) :
             d \in (1..7) \cup {29, 31}, m \in {1, 2, 7, 13},
             y \in {2024, 2025}, h \in 0..24, mi \in {0, 59}, s \in {0, 60} }

Timestamps == { ParseDatetime(c) : c \in RawDatetimes }

SaturdayMorning ==
    Some([wellformed |-> TRUE, f |-> << 4, 1, 2025, 9, 0, 0 >>])
NotADatetime ==
    Some([wellformed |-> FALSE, f |-> << 0, 0, 0, 0, 0, 0 >>])

RowsOver(columns, dts, locs) ==
    { [c \in columns |-> IF c = "VIOLATION_DATETIME" THEN d
                         ELSE IF c = "VIOL_LOC" THEN l
                         ELSE Some("EXPIRED METER")] :
        d \in dts, l \in locs }

\* one-row frames over every timestamp cell, and small frames of up to
\* MaxRows rows: INF_DESCR and every choice of the two source columns
DatetimeFrames ==
    { [columns |-> {"VIOLATION_DATETIME"},
       rows |-> << [c \in {"VIOLATION_DATETIME"} |-> d] >>] : d \in RawDatetimes }

SmallFrames ==
    UNION { { [columns |-> cols \cup {"INF_DESCR"}, rows |-> rs] :
                rs \in SeqsUpTo(RowsOver(cols \cup {"INF_DESCR"},
                                         {SaturdayMorning, NotADatetime},
                                         {Some(Join(<< Head(LocationPrefixes),
                                                       << "1","2" >>,
                                                       << "A","U","G","U","S" >>,
                                                       << "s","t" >> >>, << " " >>)),
                                          None}),
                                MaxRows) } :
            cols \in SUBSET {"VIOLATION_DATETIME", "VIOL_LOC"} }

---------------------------------------------------------------------------
(* State.                                                                  *)

VARIABLES
    op,                \* the derivation rule applied: its name
    arg,               \* its argument
    ret,               \* its result, once returned
    returned,
    portal,            \* what the metadata and file endpoints answer
    files,             \* the output directory: file name -> content
    pc,                \* position in download_and_combine
    resources,         \* its local `resources`
    i,                 \* position of the download loop in `resources`
    downloaded_files,
    dataframes,
    j,                 \* position of the read loop in `downloaded_files`
    combined_df,
    csv,               \* combined_parking_tickets.csv: None until written
    result,            \* None until download_and_combine returns
    log                \* the log stream: download and read events

deriveVars == << op, arg, ret, returned >>
runVars == << portal, files, pc, resources, i, downloaded_files, dataframes,
              j, combined_df, csv, result, log >>
vars == << op, arg, ret, returned, portal, files, pc, resources, i,
           downloaded_files, dataframes, j, combined_df, csv, result, log >>

---------------------------------------------------------------------------
(* The metadata endpoint and the file endpoint.                            *)

MaxResources == 2

Xls == << "x","l","s" >>
XLS == << "X","L","S" >>
Csv == << "C","S","V" >>

Unreadable == [readable |-> FALSE, df |-> EmptyFrame]

\* the spreadsheet the file endpoint serves for the k-th resource: two
\* tickets, the second with an unparseable timestamp and no location
TicketsOf(k) ==
    [readable |-> TRUE,
     df |-> [columns |-> {"TICKET", "VIOLATION_DATETIME", "VIOL_LOC"},
             rows |-> << [c \in {"TICKET", "VIOLATION_DATETIME", "VIOL_LOC"} |->
                             IF c = "TICKET" THEN Some(<< k, 1 >>)
                             ELSE IF c = "VIOLATION_DATETIME" THEN SaturdayMorning
                             ELSE Some(WestSide1800AngusSt)],
                         [c \in {"TICKET", "VIOLATION_DATETIME", "VIOL_LOC"} |->
                             IF c = "TICKET" THEN Some(<< k, 2 >>)
                             ELSE IF c = "VIOLATION_DATETIME" THEN NotADatetime
                             ELSE None] >>]]

\* a resource of the dataset: the keys CKAN reports (name and url may be
\* absent) and, as `body`, what a GET of its url returns
ResourcesAt(k) ==
    { [format |-> f, name |-> n, url |-> u, body |-> b] :
        f \in {Xls, Csv},
        n \in {Some("q1"), Some("parking_data_2"), None},
        u \in {Some("url"), None},
        b \in {Unreadable, TicketsOf(k)} }

ResourceLists ==
    UNION { { rs \in [1..n -> UNION { ResourcesAt(k) : k \in 1..n }] :
                \A k \in 1..n : rs[k] \in ResourcesAt(k) } : n \in 0..MaxResources }

Portals ==
    { [status |-> "transport_error", resources |-> <<>>] }
    \cup { [status |-> s, resources |-> rs] :
             s \in {"ok", "api_error"}, rs \in ResourceLists }

RECURSIVE FilterXls(_)
FilterXls(rs) ==
    IF rs = <<>> THEN <<>>
    ELSE IF Upper(Head(rs).format) = XLS
         THEN << Head(rs) >> \o FilterXls(Tail(rs))
         ELSE FilterXls(Tail(rs))

\* get_dataset_resources without the test of data.get("success")
GetDatasetResourcesIgnoringSuccess(p) ==
    IF p.status = "transport_error" THEN <<>> ELSE FilterXls(p.resources)

\* get_dataset_resources: [] on a transport error or an API-reported
\* failure, the XLS resources otherwise
GetDatasetResources(p) ==
    IF p.status = "ok" THEN FilterXls(p.resources) ELSE <<>>

DefaultNames ==
    << "parking_data_1", "parking_data_2", "parking_data_3", "parking_data_4" >>

\* resource.get("name", f"parking_data_{i+1}"), i the 0-based loop index;
\* k is the 1-based position
NameOf(resource, k) ==
    IF IsNull(resource.name) THEN DefaultNames[k] ELSE Val(resource.name)

\* self.output_dir / f"{name}.xls"
PathOf(resource, k) == [stem |-> NameOf(resource, k), ext |-> ".xls"]

Write(dir, path, content) ==
    [q \in DOMAIN dir \cup {path} |-> IF q = path THEN content ELSE dir[q]]

\* read_xls_file: the frame, or None when the content does not parse
ReadXlsFile(dir, path) ==
    IF path \in DOMAIN dir /\ dir[path].readable THEN Some(dir[path].df) ELSE None

---------------------------------------------------------------------------
(* download_and_combine, one action per step of its body.                  *)

Event(kind, k, outcome) == [kind |-> kind, k |-> k, outcome |-> outcome]

RunIdle ==
    /\ portal = [status |-> "transport_error", resources |-> <<>>]
    /\ files = <<>>
    /\ pc = "idle"
    /\ resources = <<>>
    /\ i = 0
    /\ downloaded_files = <<>>
    /\ dataframes = <<>>
    /\ j = 0
    /\ combined_df = EmptyFrame
    /\ csv = None
    /\ result = None
    /\ log = <<>>

DeriveIdle ==
    /\ op = "none"
    /\ arg = None
    /\ ret = None
    /\ returned = FALSE

\* the state after construction: an empty output directory; the endpoints'
\* answers are the environment's
InitRun ==
    /\ DeriveIdle
    /\ portal \in Portals
    /\ files = <<>>
    /\ pc = "start"
    /\ resources = <<>>
    /\ i = 0
    /\ downloaded_files = <<>>
    /\ dataframes = <<>>
    /\ j = 0
    /\ combined_df = EmptyFrame
    /\ csv = None
    /\ result = None
    /\ log = <<>>

\* lines 279-285
Discover ==
    /\ pc = "start"
    /\ resources' = GetDatasetResources(portal)
    /\ IF resources' = <<>>
       THEN pc' = "done" /\ result' = Some(FALSE) /\ i' = i
       ELSE pc' = "download" /\ result' = result /\ i' = 1
    /\ UNCHANGED << deriveVars, portal, files, downloaded_files, dataframes,
                    j, combined_df, csv, log >>

\* the loop body of lines 288-298 in which a failed download ends the loop
DownloadStepAbortOnFailure ==
    /\ pc = "download"
    /\ i <= Len(resources)
    /\ LET resource == resources[i]
           path == PathOf(resource, i)
       IN  IF IsNull(resource.url)
           THEN /\ log' = Append(log, Event("download", i, "no_url"))
                /\ i' = i + 1
                /\ UNCHANGED << files, downloaded_files >>
           ELSE \E outcome \in {"ok", "fetch_error", "write_error"} :
                  /\ log' = Append(log, Event("download", i, outcome))
                  /\ i' = IF outcome = "ok" THEN i + 1 ELSE Len(resources) + 1
                  /\ files' = IF outcome = "ok"
                              THEN Write(files, path, resource.body)
                              ELSE IF outcome = "write_error"
                                   THEN Write(files, path, Unreadable)
                                   ELSE files
                  /\ downloaded_files' = IF outcome = "ok"
                                         THEN Append(downloaded_files, path)
                                         ELSE downloaded_files
    /\ UNCHANGED << deriveVars, portal, pc, resources, dataframes, j,
                    combined_df, csv, result >>

\* lines 288-298, one resource: skipped without a url; otherwise
\* download_file, which returns True after writing the body, or False after
\* the request failed (nothing written) or after the write failed (the file
\* was opened for writing and holds no spreadsheet)
DownloadStep ==
    /\ pc = "download"
    /\ i <= Len(resources)
    /\ LET resource == resources[i]
           path == PathOf(resource, i)
       IN  IF IsNull(resource.url)
           THEN /\ log' = Append(log, Event("download", i, "no_url"))
                /\ UNCHANGED << files, downloaded_files >>
           ELSE \E outcome \in {"ok", "fetch_error", "write_error"} :
                  /\ log' = Append(log, Event("download", i, outcome))
                  /\ files' = IF outcome = "ok"
                              THEN Write(files, path, resource.body)
                              ELSE IF outcome = "write_error"
                                   THEN Write(files, path, Unreadable)
                                   ELSE files
                  /\ downloaded_files' = IF outcome = "ok"
                                         THEN Append(downloaded_files, path)
                                         ELSE downloaded_files
    /\ i' = i + 1
    /\ UNCHANGED << deriveVars, portal, pc, resources, dataframes, j,
                    combined_df, csv, result >>

\* lines 300-302, at the end of the download loop
DownloadsDone ==
    /\ pc = "download"
    /\ i > Len(resources)
    /\ IF downloaded_files = <<>>
       THEN pc' = "done" /\ result' = Some(FALSE) /\ j' = j
       ELSE pc' = "read" /\ result' = result /\ j' = 1
    /\ UNCHANGED << deriveVars, portal, files, resources, i, downloaded_files,
                    dataframes, combined_df, csv, log >>

\* lines 305-308, one file
ReadStep ==
    /\ pc = "read"
    /\ j <= Len(downloaded_files)
    /\ LET df == ReadXlsFile(files, downloaded_files[j])
       IN  IF ~IsNull(df)
           THEN /\ dataframes' = Append(dataframes, Val(df))
                /\ log' = Append(log, Event("read", j, "ok"))
           ELSE /\ dataframes' = dataframes
                /\ log' = Append(log, Event("read", j, "error"))
    /\ j' = j + 1
    /\ UNCHANGED << deriveVars, portal, files, pc, resources, i,
                    downloaded_files, combined_df, csv, result >>

\* lines 310-320, at the end of the read loop: combine and save
CombineAndSave ==
    /\ pc = "read"
    /\ j > Len(downloaded_files)
    /\ IF dataframes = <<>>
       THEN /\ pc' = "done" /\ result' = Some(FALSE)
            /\ UNCHANGED << combined_df, csv >>
       ELSE /\ combined_df' = CombineDataframes(dataframes)
            /\ csv' = Some(combined_df')
            /\ pc' = "summary" /\ result' = result
    /\ UNCHANGED << deriveVars, portal, files, resources, i, downloaded_files,
                    dataframes, j, log >>

\* lines 322-329: display_summary runs inside the try block; when it
\* raises (an aggregate over a column, or a print, fails) the handler of
\* line 327 returns False
Summarize ==
    /\ pc = "summary"
    /\ \E raised \in BOOLEAN :
          result' = IF raised THEN Some(FALSE) ELSE Some(TRUE)
    /\ pc' = "done"
    /\ UNCHANGED << deriveVars, portal, files, resources, i, downloaded_files,
                    dataframes, j, combined_df, csv, log >>

Init == InitRun

Next ==
    \/ Discover
    \/ DownloadStep
    \/ DownloadsDone
    \/ ReadStep
    \/ CombineAndSave
    \/ Summarize

Spec == Init /\ [][Next]_vars

---------------------------------------------------------------------------
(* The derivation rules applied to drawn inputs.                           *)

InitDerive ==
    /\ RunIdle
    /\ ret = None
    /\ returned = FALSE
    /\ \/ op = "categorize_time" /\ arg \in Timestamps
       \/ op = "parse_location" /\ arg \in ViolLocs
       \/ op = "process_dataframe" /\ arg \in DatetimeFrames \cup SmallFrames
       \/ op = "combine_dataframes" /\ arg \in SmallFrames \X SmallFrames

CallCategorizeTime ==
    /\ op = "categorize_time" /\ ~returned
    /\ ret' = CategorizeTime(arg)
    /\ returned' = TRUE
    /\ UNCHANGED << op, arg, runVars >>

CallParseLocation ==
    /\ op = "parse_location" /\ ~returned
    /\ ret' = ParseLocation(arg)
    /\ returned' = TRUE
    /\ UNCHANGED << op, arg, runVars >>

CallProcessDataframe ==
    /\ op = "process_dataframe" /\ ~returned
    /\ ret' = ProcessDataframe(arg)
    /\ returned' = TRUE
    /\ UNCHANGED << op, arg, runVars >>

CallCombineDataframes ==
    /\ op = "combine_dataframes" /\ ~returned
    /\ ret' = CombineDataframes(arg)
    /\ returned' = TRUE
    /\ UNCHANGED << op, arg, runVars >>

NextDerive ==
    \/ CallCategorizeTime
    \/ CallParseLocation
    \/ CallProcessDataframe
    \/ CallCombineDataframes

SpecDerive == InitDerive /\ [][NextDerive]_vars

---------------------------------------------------------------------------
(* Properties of the derivation rules (checked under SpecDerive).          *)

\* date.weekday() by the proleptic ordinal: Monday = 0 ... Sunday = 6
RECURSIVE DaysBeforeMonth(_, _)
DaysBeforeMonth(y, m) ==
    IF m = 1 THEN 0 ELSE DaysBeforeMonth(y, m - 1) + DaysInMonth(y, m - 1)

CalendarWeekday(y, m, d) ==
    LET ordinal == 365 * (y - 1) + ((y - 1) \div 4) - ((y - 1) \div 100)
                   + ((y - 1) \div 400) + DaysBeforeMonth(y, m) + d
    IN  (ordinal + 6) % 7

\* C1: in every row of the processed table WEEKEND_OR_WEEKDAY is "Weekend"
\* when the parsed VIOLATION_DATETIME falls on Saturday or Sunday, "Weekday"
\* when it falls on Monday to Friday, and null when the timestamp is null.
C1_WeekendOrWeekday ==
    (op = "process_dataframe" /\ returned /\ "VIOLATION_DATETIME" \in ret.columns)
    => \A k \in DOMAIN ret.rows :
          LET ts == ret.rows[k]["VIOLATION_DATETIME"]
              flag == ret.rows[k]["WEEKEND_OR_WEEKDAY"]
          IN  IF IsNull(ts) THEN IsNull(flag)
              ELSE IF CalendarWeekday(Val(ts).year, Val(ts).month, Val(ts).day)
                        \in {5, 6}
                   THEN flag = Some("Weekend")
                   ELSE flag = Some("Weekday")

AllSpaces(s) == \A k \in DOMAIN s : IsSpace(s[k])

\* C2: parse_location returns a null location and a null address for every
\* VIOL_LOC that is null, empty, or empty after stripping whitespace; it
\* never returns an empty-string address.
C2_EmptyLocationIsNull ==
    (op = "parse_location" /\ returned)
    => /\ (IsNull(arg) \/ AllSpaces(Val(arg))) => ret = << None, None >>
       /\ ret[2] # Some(<<>>)

\* the text between the first and the last non-whitespace character
Trimmed(s) ==
    LET solid == { k \in DOMAIN s : ~IsSpace(s[k]) }
    IN  IF solid = {} THEN <<>>
        ELSE SubSeq(s, CHOOSE k \in solid : \A q \in solid : k <= q,
                       CHOOSE k \in solid : \A q \in solid : q <= k)

\* s = prefix of length n, whitespace, digits starting at a, whitespace, rest
HasNumberForm(s, n, a) ==
    /\ 1 <= n /\ n + 1 < a /\ a <= Len(s)
    /\ \A k \in (n + 1)..(a - 1) : IsSpace(s[k])
    /\ \E b \in (a + 1)..Len(s) :
          /\ \A k \in a..(b - 1) : IsDigit(s[k])
          /\ \E c \in (b + 1)..Len(s) : \A k \in b..(c - 1) : IsSpace(s[k])

NumberForms(s) ==
    { f \in (1..Len(s)) \X (1..Len(s)) : HasNumberForm(s, f[1], f[2]) }

\* s starts with the k-th fixed prefix in any case, then whitespace, then a
\* remainder starting at a
HasPrefixForm(s, k, a) ==
    LET n == Len(LocationPrefixes[k])
    IN  /\ n + 1 < a /\ a <= Len(s)
        /\ \A q \in 1..n : ToUpper(s[q]) = LocationPrefixes[k][q]
        /\ \A q \in (n + 1)..(a - 1) : IsSpace(s[q])
        /\ ~IsSpace(s[a])

PrefixForms(s) ==
    { f \in (DOMAIN LocationPrefixes) \X (1..Len(s)) : HasPrefixForm(s, f[1], f[2]) }

Addressed(s) == Some(Title(s) \o RegionSuffix)

ExpectedSplit(s) ==
    IF NumberForms(s) # {}
    THEN LET f == CHOOSE f \in NumberForms(s) :
                     \A g \in NumberForms(s) : f[1] <= g[1]
         IN  IF ~IsDigit(s[1])
             THEN << Some(Title(SubSeq(s, 1, f[1]))), Addressed(From(s, f[2])) >>
             ELSE << None, Addressed(s) >>
    ELSE IF PrefixForms(s) # {}
         THEN LET f == CHOOSE f \in PrefixForms(s) : TRUE
              IN  << Some(Title(SubSeq(s, 1, Len(LocationPrefixes[f[1]])))),
                     Addressed(From(s, f[2])) >>
         ELSE << None, Addressed(s) >>

WestSideTitled == << "W","e","s","t"," ","S","i","d","e" >>
InFrontOfTitled == << "I","n"," ","F","r","o","n","t"," ","O","f" >>
AngusSt1800Titled ==
    << "1","8","0","0"," ","A","n","g","u","s"," ","S","t" >> \o RegionSuffix
DarkeCresTitled ==
    << "D","a","r","k","e"," ","C","r","e","s" >> \o RegionSuffix

\* C3: for every non-empty VIOL_LOC text parse_location decides in order:
\* (1) the text has the form <prefix> <digits> <rest>: with the shortest
\* such prefix not starting with a digit, location = prefix and address =
\* the remainder from the street number; with it starting with a digit,
\* location is null and address is the whole text; (2) otherwise the text
\* starts, in any case, with one of the ten fixed prefixes followed by
\* whitespace and a remainder: location = that prefix, address = the
\* remainder; (3) otherwise location is null and address is the whole text.
\* A present location is title-cased; a present address is title-cased and
\* ends with ", Regina, Saskatchewan".
C3_SplitDecision ==
    (op = "parse_location" /\ returned /\ ~IsNull(arg) /\ ~AllSpaces(Val(arg)))
    => /\ ret = ExpectedSplit(Trimmed(Val(arg)))
       /\ arg = Some(WestSide1800AngusSt)
            => ret = << Some(WestSideTitled), Some(AngusSt1800Titled) >>
       /\ arg = Some(AngusSt1800)
            => ret = << None, Some(AngusSt1800Titled) >>
       /\ arg = Some(InFrontOfDarkeCres)
            => ret = << Some(InFrontOfTitled), Some(DarkeCresTitled) >>

C3_Witness ==
    /\ op = "parse_location" /\ returned
    /\ arg = Some(WestSide1800AngusSt)
    /\ ret = << Some(WestSideTitled), Some(AngusSt1800Titled) >>

\* C4: categorize_time maps a non-null timestamp by its hour h to exactly
\* one category: "8am-12pm" for 8 <= h < 12, "12pm-5pm" for 12 <= h < 17,
\* "5pm-11pm" for 17 <= h < 23, "11pm-8am" for h = 23 and 0 <= h <= 7; a
\* null timestamp maps to null.
C4_TimeCategory ==
    (op = "categorize_time" /\ returned)
    => IF IsNull(arg) THEN IsNull(ret)
       ELSE LET h == Val(arg).hour
            IN  /\ h \in 0..23
                /\ h \in 8..11 => ret = Some("8am-12pm")
                /\ h \in 12..16 => ret = Some("12pm-5pm")
                /\ h \in 17..22 => ret = Some("5pm-11pm")
                /\ h \in {23} \cup (0..7) => ret = Some("11pm-8am")

C4_Witness ==
    /\ op = "categorize_time" /\ returned
    /\ ~IsNull(arg) /\ Val(arg).hour = 12
    /\ ret = Some("12pm-5pm")

\* C5: for any tables A and B, concatenating [A, B] and then applying
\* process_dataframe yields the same rows, in the same order and with the
\* same derived values, as processing A and B separately and concatenating
\* the results.
C5_DerivationCommutes ==
    (op = "combine_dataframes" /\ returned)
    => ret = Concat(<< ProcessDataframe(arg[1]), ProcessDataframe(arg[2]) >>)

---------------------------------------------------------------------------
(* Properties of download_and_combine (checked under Spec).                *)

Returned == pc = "done"

DownloadOk(e) == e.kind = "download" /\ e.outcome = "ok"
DownloadEvent(e) == e.kind = "download"
ReadEvent(e) == e.kind = "read"
ReadOk(e) == e.kind = "read" /\ e.outcome = "ok"
ReadError(e) == e.kind = "read" /\ e.outcome = "error"

Downloads(events) == SelectSeq(events, DownloadEvent)
Reads(events) == SelectSeq(events, ReadEvent)

NoXlsResource ==
    \/ portal.status # "ok"
    \/ \A k \in DOMAIN portal.resources :
          \E q \in 1..3 : ToUpper(portal.resources[k].format[q]) # XLS[q]

\* C6: when resource discovery returns an empty list (no XLS resource, an
\* API-reported failure, a transport error) download_and_combine returns
\* False without attempting a download or a parse and without writing
\* combined_parking_tickets.csv.
C6_EmptyDiscoveryFails ==
    (pc # "start" /\ (NoXlsResource \/ resources = <<>>))
    => /\ resources = <<>>
       /\ Returned /\ result = Some(FALSE)
       /\ log = <<>>
       /\ DOMAIN files = {}
       /\ downloaded_files = <<>> /\ dataframes = <<>>
       /\ IsNull(csv)

C6_Witness ==
    /\ Returned /\ result = Some(FALSE)
    /\ portal.status = "api_error" /\ portal.resources # <<>>
    /\ resources = <<>> /\ log = <<>>

\* the TICKET cells of the frames in a sequence, in order
RECURSIVE TicketsIn(_)
TicketsIn(dfs) ==
    IF dfs = <<>> THEN <<>>
    ELSE Column(Head(dfs), "TICKET") \o TicketsIn(Tail(dfs))

\* the frames of the downloaded files that parse, in download order
RECURSIVE ParsedFrom(_, _)
ParsedFrom(dir, paths) ==
    IF paths = <<>> THEN <<>>
    ELSE IF dir[Head(paths)].readable
         THEN << dir[Head(paths)].df >> \o ParsedFrom(dir, Tail(paths))
         ELSE ParsedFrom(dir, Tail(paths))

\* C7: in a run where some downloaded file fails to parse and at least one
\* other parses, the run does not abort: every downloaded file is parsed,
\* the combined table holds exactly the rows of the parsed files in
\* download order, the output file is written and the run reports success.
C7_ParseFailureTolerated ==
    (Returned /\ (\E k \in DOMAIN log : ReadError(log[k]))
              /\ (\E k \in DOMAIN log : ReadOk(log[k])))
    => /\ Len(Reads(log)) = Len(downloaded_files)
       /\ Column(combined_df, "TICKET")
            = TicketsIn(ParsedFrom(files, downloaded_files))
       /\ csv = Some(combined_df)
       /\ result = Some(TRUE)

\* the paths of the resources whose download event is "ok", in order
RECURSIVE PathsOfOk(_, _)
PathsOfOk(events, rs) ==
    IF events = <<>> THEN <<>>
    ELSE IF DownloadOk(Head(events))
         THEN << PathOf(rs[Head(events).k], Head(events).k) >>
              \o PathsOfOk(Tail(events), rs)
         ELSE PathsOfOk(Tail(events), rs)

\* a step of the loop on a resource that has no url or fails to download
C8_SkipStep ==
    (pc = "download" /\ i <= Len(resources) /\ log' # log
        /\ log'[Len(log')].outcome # "ok")
    => /\ downloaded_files' = downloaded_files
       /\ pc' = "download" /\ i' = i + 1

\* the step that leaves the loop
C8_LoopExit ==
    (pc = "download" /\ pc' # "download")
    => /\ Len(Downloads(log')) = Len(resources)
       /\ \A k \in 1..Len(resources) : Downloads(log')[k].k = k
       /\ pc' = "read" <=> \E k \in DOMAIN log' : DownloadOk(log'[k])

\* C8: in the download loop a resource whose download fails or that has no
\* url is skipped and never added to the files to parse, every later
\* resource is still attempted, and the run proceeds to parsing if at least
\* one download succeeded.
C8_FailedDownloadSkipped ==
    [][ /\ C8_SkipStep
        /\ C8_LoopExit
        /\ downloaded_files' = PathsOfOk(Downloads(log'), resources') ]_vars

C8_Witness ==
    /\ pc = "read"
    /\ \E k \in DOMAIN log : \E q \in DOMAIN log :
          /\ k < q
          /\ log[k].kind = "download" /\ log[k].outcome \in {"fetch_error", "write_error"}
          /\ DownloadOk(log[q])

\* the number of successful downloads among the first k resources: the
\* position of the k-th resource's file in downloaded_files
OkUpTo(k) == Cardinality({ q \in 1..k : DownloadOk(Downloads(log)[q]) })

DownloadedAndParsed(k) ==
    /\ DownloadOk(Downloads(log)[k])
    /\ ReadOk(Reads(log)[OkUpTo(k)])

RECURSIVE OwnTickets(_)
OwnTickets(k) ==
    IF k = 0 THEN <<>>
    ELSE OwnTickets(k - 1)
         \o (IF DownloadedAndParsed(k)
             THEN Column(resources[k].body.df, "TICKET") ELSE <<>>)

\* C9: in every successful run each resource that was downloaded and parsed
\* successfully contributes its own rows to the combined table exactly
\* once, in discovery order, also when two resources map to the same local
\* file name.
C9_OwnRowsOnce ==
    (Returned /\ result = Some(TRUE))
    => Column(combined_df, "TICKET") = OwnTickets(Len(resources))

\* C10: download_and_combine always returns a boolean, and that boolean is
\* True exactly when combined_parking_tickets.csv was written during the
\* run.
C10_TrueIffWritten ==
    Returned
    => /\ result \in {Some(TRUE), Some(FALSE)}
       /\ result = Some(TRUE) <=> ~IsNull(csv)

=============================================================================
